---- MODULE Spec2Model ----
(***************************************************************************)
(* Journal status workflow of the NBU journal portal front end.            *)
(*                                                                         *)
(* The pages of the front end hold a local copy of a journal and send      *)
(* requests (journalAPI, src/src/utils/config.ts) to the persistence       *)
(* service.  The service is a store: a successful write request applies    *)
(* what the request asks for, a failed one changes nothing.  The pages     *)
(* decide which requests are sent, from their local copy of the journal    *)
(* and from the auth context.                                              *)
(***************************************************************************)
EXTENDS Integers, Sequences, FiniteSets, TLC

\* ---------------------------------------------------------------- bounds
\* number of publish requests the service accepts (published_date values)
MaxClock == 3
\* number of JournalReview rows the service stores
MaxReviews == 1

\* ------------------------------------------------------------ data model
\* browser tabs, each showing one page at a time
Tabs == {"t1", "t2"}

\* enum UserRole
SUPER_ADMIN == "super_admin"
ADMIN == "admin"
REVIEWER == "reviewer"
PUBLISHER == "publisher"

\* the registered users (ids); 0 stands for "no user" (user = null, no token)
Users == {1, 2, 3, 4, 5}
NoUser == 0

\* User.role
RoleOf(u) ==
  CASE u = 1 -> SUPER_ADMIN
    [] u = 2 -> ADMIN
    [] u = 3 -> REVIEWER
    [] u = 4 -> REVIEWER
    [] u = 5 -> PUBLISHER
    [] OTHER -> "none"

\* enum JournalStatus
SUBMITTED == "submitted"
RECEIVED == "received"
ASSIGNED == "assigned"
BEING_REVIEWED == "being_reviewed"
APPROVED == "approved"
PUBLISHED == "published"
REJECTED == "rejected"

JournalStatus ==
  {SUBMITTED, RECEIVED, ASSIGNED, BEING_REVIEWED, APPROVED, PUBLISHED, REJECTED}

\* strings are sequences of characters; SP is the blank
SP == " "
\* the texts typed into the publication number input and the review comments
Texts == {<<>>, <<SP>>, <<SP, SP>>, <<"a">>, <<"b">>}

\* String.prototype.trim
RECURSIVE TrimLeft(_)
TrimLeft(s) ==
  IF s = <<>> THEN <<>>
  ELSE IF Head(s) = SP THEN TrimLeft(Tail(s)) ELSE s

RECURSIVE TrimRight(_)
TrimRight(s) ==
  IF s = <<>> THEN <<>>
  ELSE IF s[Len(s)] = SP THEN TrimRight(SubSeq(s, 1, Len(s) - 1)) ELSE s

Trim(s) == TrimRight(TrimLeft(s))

\* JavaScript truthiness of a string or of an absent string (null = <<>>)
Truthy(s) == s # <<>>

\* interface Journal: the fields of the workflow.  reviewer_id = 0,
\* publication_number = <<>> and published_date = 0 stand for absent values.
MkJournal(st, rid, pn, pd) ==
  [status |-> st, reviewer_id |-> rid, publication_number |-> pn,
   published_date |-> pd]

\* journal = null in a page (useState<Journal | null>(null))
NullJournal == MkJournal("null", 0, <<>>, 0)

VARIABLES
  journal,    \* the journal record held by the persistence service
  reviews,    \* the JournalReview rows of the journal, oldest first
  clock,      \* the service's time, advanced by every publish
  page,       \* per tab: the page shown and its React state
  fetches,    \* per tab: the runs of the effects (fetchJournal,
              \*          checkJournalAndAuth) that await their GET
  bg,         \* per tab: the updateJournalStatus call that fetchJournal
              \*          started without awaiting it
  pc,         \* per tab: position of the handler that is running
  arg,        \* per tab: the values the running handler captured
  state,      \* AuthProvider: the AuthState of useState(initialState)
  localToken, \* localStorage 'token' (0: none; u: the token of user u)
  ops         \* AuthProvider: the operations that await their request

vars ==
  <<journal, reviews, clock, page, fetches, bg, pc, arg,
    state, localToken, ops>>

\* the variables of the pages and of the persistence service
pageVars == <<journal, reviews, clock, page, fetches, bg, pc, arg>>

\* the variables of AuthProvider
authVars == <<state, localToken, ops>>

\* ------------------------------------------------------ persistence service
\* PUT /journals/:id/status {status}
ServerSetStatus(j, st) == [j EXCEPT !.status = st]

\* PUT /journals/:id/assign {reviewer_id}
ServerAssign(j, rid) == [j EXCEPT !.reviewer_id = rid]

\* PUT /journals/:id/publish {publication_number}
ServerPublish(j, pn, now) ==
  [j EXCEPT !.status = PUBLISHED, !.publication_number = pn,
            !.published_date = now]

\* PUT /journals/:id/unpublish
ServerUnpublish(j) == [j EXCEPT !.status = APPROVED]

\* PUT /journals/:id/review {status, comments}: a JournalReview row of the
\* requesting reviewer
ServerReview(rs, uid, st, comments) ==
  Append(rs, [reviewer_id |-> uid, status |-> st, comments |-> comments])

\* POST /journals {title, abstract, journalFile, authors}: the new record.
\* The request carries no status, reviewer or publication data.
ServerCreate == MkJournal(SUBMITTED, 0, <<>>, 0)

\* the request, were the fallback route open to a request without a token
CanGetJournalById_Open(u) == journal # NullJournal

\* GET /journals/published/:id, with the fallback GET /journals/:id that
\* needs a token: can the request of user u succeed
CanGetJournalById(u) ==
  /\ journal # NullJournal
  /\ (journal.status = PUBLISHED \/ u # NoUser)

\* ------------------------------------------------------------ page state
DETAIL == "detail"          \* JournalDetailPage
PUBLISHED_DETAIL == "published_detail"  \* PublishedJournalDetailPage
ALL == "all"                \* the all-journals listing
HOME == "home"              \* the home page, listing the latest journals
SUBMIT == "submit"          \* SubmitJournalPage with its submission form
LEFT == "left"              \* a detail page the router has left; the
                            \* requests it has started go on
CLOSED == "closed"

\* the versions of the JournalCard component: the one that offers Unpublish
\* under canUnpublish, and the one with the "Admin-only buttons"
CARD == "card"
CARD_ADMIN == "card_admin"
Cards == {CARD, CARD_ADMIN}

NoArg == [n |-> 0, s |-> <<>>, v |-> "none"]

ClosedPage ==
  [kind |-> CLOSED, who |-> NoUser, isAuthenticated |-> FALSE,
   journal |-> NullJournal, isLoading |-> FALSE, error |-> FALSE,
   reviewers |-> FALSE, isLoadingReviewers |-> FALSE, notice |-> "none",
   card |-> "none"]

\* AuthContext.tsx: const initialState (user: null is NoUser, token: null
\* is 0, error: null is FALSE)
initialState ==
  [user |-> NoUser, token |-> 0, isAuthenticated |-> FALSE,
   isLoading |-> FALSE, isResendLoading |-> FALSE, error |-> FALSE]

\* useAuth().user of the tab: null until the auth context has loaded it
UserOf(t) == IF page[t].isAuthenticated THEN page[t].who ELSE NoUser

RoleOfTab(t) == RoleOf(UserOf(t))

Init ==
  /\ journal = MkJournal(SUBMITTED, 0, <<>>, 0)
  /\ reviews = <<>>
  /\ clock = 0
  /\ page = [t \in Tabs |-> ClosedPage]
  /\ fetches = [t \in Tabs |-> {}]
  /\ bg = [t \in Tabs |-> "idle"]
  /\ pc = [t \in Tabs |-> "idle"]
  /\ arg = [t \in Tabs |-> NoArg]
  /\ state = initialState
  /\ localToken = 0
  /\ ops = {}

Quiet(t) == fetches[t] = {} /\ bg[t] = "idle" /\ pc[t] = "idle"

\* a run of an effect: the function it runs and the values of its render
Run(fn, auth, cap) == [fn |-> fn, auth |-> auth, cap |-> cap]

\* ------------------------------------------------- JournalDetailPage: load
\* A tab opens /journals/:id.  who is the owner of the token in
\* localStorage (NoUser: a visitor); loaded tells whether the auth context
\* already holds the user (navigation inside the app) or still has to load
\* it (AuthProvider.loadUser).  The two effects run; journal = null.
OpenDetail(t, who, loaded) ==
  /\ page[t].kind = CLOSED
  /\ loaded => who # NoUser
  /\ page' = [page EXCEPT ![t] =
       [ClosedPage EXCEPT !.kind = DETAIL, !.who = who,
                          !.isAuthenticated = loaded, !.isLoading = TRUE]]
  /\ fetches' = [fetches EXCEPT ![t] =
       {Run("fetch", loaded, NullJournal), Run("check", loaded, NullJournal)}]
  /\ UNCHANGED <<journal, reviews, clock, bg, pc, arg>>
  /\ UNCHANGED authVars

\* AuthProvider.loadUser completes: isAuthenticated and user.role change, and
\* the effects of the detail page run again, with the journal the page holds
\* at that render.
AuthLoaded(t) ==
  /\ page[t].kind = DETAIL
  /\ page[t].who # NoUser
  /\ ~page[t].isAuthenticated
  /\ page' = [page EXCEPT ![t].isAuthenticated = TRUE,
                          ![t].isLoading = TRUE, ![t].error = FALSE]
  /\ fetches' = [fetches EXCEPT ![t] =
       @ \cup {Run("fetch", TRUE, page[t].journal),
               Run("check", TRUE, page[t].journal)}]
  /\ UNCHANGED <<journal, reviews, clock, bg, pc, arg>>
  /\ UNCHANGED authVars

\* fetchJournal: the condition under which the admin view fetches the
\* reviewers and requests the status received
IsAdminRole(r) == r = ADMIN \/ r = SUPER_ADMIN

AdminViewsSubmitted(auth, who, fetched) ==
  auth /\ IsAdminRole(RoleOf(who)) /\ fetched.status = SUBMITTED

\* fetchJournal, from the response of getJournalById to the end
FetchJournal(t, run) ==
  /\ page[t].kind \in {DETAIL, LEFT}
  /\ run \in fetches[t]
  /\ run.fn = "fetch"
  /\ fetches' = [fetches EXCEPT ![t] = @ \ {run}]
  /\ \/ /\ CanGetJournalById(page[t].who)
        /\ LET admin == AdminViewsSubmitted(run.auth, page[t].who, journal)
           IN /\ page' = [page EXCEPT
                   ![t].journal = journal,
                   ![t].isLoading = FALSE,
                   ![t].isLoadingReviewers = IF admin THEN TRUE ELSE @]
              \* updateJournalStatus(RECEIVED), not awaited; it returns at
              \* once when the journal of its render is null
              /\ bg' = [bg EXCEPT ![t] =
                   IF admin /\ run.cap # NullJournal THEN "put" ELSE @]
     \* the journal arrives, the separate request for its reviews fails
     \/ /\ CanGetJournalById(page[t].who)
        /\ run.auth
        /\ page' = [page EXCEPT ![t].journal = journal, ![t].error = TRUE,
                                ![t].isLoading = FALSE]
        /\ UNCHANGED bg
     \/ /\ page' = [page EXCEPT ![t].error = TRUE, ![t].isLoading = FALSE]
        /\ UNCHANGED bg
  /\ UNCHANGED <<journal, reviews, clock, pc, arg>>
  /\ UNCHANGED authVars

\* checkJournalAndAuth, from the response of getJournalById: a journal that
\* is not published sends the render without a user to /login.  A failed
\* request is only logged.
CheckJournalAndAuth(t, run) ==
  /\ page[t].kind \in {DETAIL, LEFT}
  /\ run \in fetches[t]
  /\ run.fn = "check"
  /\ fetches' = [fetches EXCEPT ![t] = @ \ {run}]
  /\ \/ /\ CanGetJournalById(page[t].who)
        /\ page' = [page EXCEPT ![t].kind =
             IF journal.status # PUBLISHED /\ ~run.auth THEN LEFT ELSE @]
     \/ UNCHANGED page
  /\ UNCHANGED <<journal, reviews, clock, bg, pc, arg>>
  /\ UNCHANGED authVars

\* fetchReviewers, from the response of getAllReviewers to the end
FetchReviewers(t) ==
  /\ page[t].kind \in {DETAIL, LEFT}
  /\ page[t].isLoadingReviewers
  /\ \/ page' = [page EXCEPT ![t].reviewers = TRUE,
                             ![t].isLoadingReviewers = FALSE]
     \/ page' = [page EXCEPT ![t].isLoadingReviewers = FALSE]
  /\ UNCHANGED <<journal, reviews, clock, fetches, bg, pc, arg>>
  /\ UNCHANGED authVars

\* updateJournalStatus(RECEIVED) started by fetchJournal: the PUT
AutoReceivedPut(t) ==
  /\ bg[t] = "put"
  /\ \/ /\ journal' = ServerSetStatus(journal, RECEIVED)
        /\ bg' = [bg EXCEPT ![t] = "get"]
        /\ UNCHANGED page
     \/ /\ page' = [page EXCEPT ![t].error = TRUE]
        /\ bg' = [bg EXCEPT ![t] = "idle"]
        /\ UNCHANGED journal
  /\ UNCHANGED <<reviews, clock, fetches, pc, arg>>
  /\ UNCHANGED authVars

\* updateJournalStatus(RECEIVED) started by fetchJournal: the refresh
AutoReceivedRefresh(t) ==
  /\ bg[t] = "get"
  /\ bg' = [bg EXCEPT ![t] = "idle"]
  /\ \/ page' = [page EXCEPT ![t].journal = journal]
     \/ page' = [page EXCEPT ![t].error = TRUE]
  /\ UNCHANGED <<journal, reviews, clock, fetches, pc, arg>>
  /\ UNCHANGED authVars

\* the detail page renders the journal and its controls (neither the
\* spinner nor the "Journal Not Found" screen)
ShowsJournal(t) ==
  /\ page[t].kind = DETAIL
  /\ ~page[t].isLoading
  /\ ~page[t].error
  /\ page[t].journal # NullJournal

\* -------------------------------- JournalDetailPage: updateJournalStatus
\* the status passed to updateJournalStatus, were the verdict not looked at
StatusArg_AlwaysApproved(t) ==
  CASE pc[t] \in {"assign_status", "assign_refresh"} -> ASSIGNED
    [] pc[t] \in {"review_status", "review_refresh"} -> APPROVED
    [] OTHER -> "none"

\* the status a handler passes to updateJournalStatus
StatusArg(t) ==
  CASE pc[t] \in {"assign_status", "assign_refresh"} -> ASSIGNED
    [] pc[t] \in {"review_status", "review_refresh"} ->
         IF arg[t].v = "approved" THEN APPROVED ELSE REJECTED
    [] OTHER -> "none"

\* where the handler goes on when updateJournalStatus has returned
AfterStatus(t) ==
  IF pc[t] \in {"assign_status", "assign_refresh"} THEN "assign_final"
  ELSE "review_final"

\* updateJournalStatus called by a handler: the PUT.  A failure is caught
\* inside updateJournalStatus (setError), and the caller goes on.
UpdateJournalStatusPut(t) ==
  /\ pc[t] \in {"assign_status", "review_status"}
  /\ \/ /\ journal' = ServerSetStatus(journal, StatusArg(t))
        /\ pc' = [pc EXCEPT ![t] =
             IF @ = "assign_status" THEN "assign_refresh"
             ELSE "review_refresh"]
        /\ UNCHANGED page
     \/ /\ page' = [page EXCEPT ![t].error = TRUE]
        /\ pc' = [pc EXCEPT ![t] = AfterStatus(t)]
        /\ UNCHANGED journal
  /\ UNCHANGED <<reviews, clock, fetches, bg, arg>>
  /\ UNCHANGED authVars

\* updateJournalStatus called by a handler: the refresh
UpdateJournalStatusRefresh(t) ==
  /\ pc[t] \in {"assign_refresh", "review_refresh"}
  /\ pc' = [pc EXCEPT ![t] = AfterStatus(t)]
  /\ \/ page' = [page EXCEPT ![t].journal = journal]
     \/ page' = [page EXCEPT ![t].error = TRUE]
  /\ UNCHANGED <<journal, reviews, clock, fetches, bg, arg>>
  /\ UNCHANGED authVars

\* ------------------------------------ JournalDetailPage: assign reviewer
\* the users offered by the reviewer dropdown (getAllReviewers)
Reviewers == {u \in Users : RoleOf(u) = REVIEWER}

\* the assign control, were it rendered without looking at the role
CanAssign_AnyRole(t) ==
  /\ ShowsJournal(t)
  /\ page[t].who # NoUser
  /\ page[t].journal.status \in {SUBMITTED, RECEIVED}

\* the "Admin Actions" card offers the assign control
CanAssign(t) ==
  /\ ShowsJournal(t)
  /\ IsAdminRole(RoleOfTab(t))
  /\ page[t].journal.status \in {SUBMITTED, RECEIVED}

\* handleAssignReviewer, up to the first request.  selectedReviewer is an
\* entry of the loaded reviewers list; the button is disabled without one.
HandleAssignReviewer(t, r) ==
  /\ CanAssign(t)
  /\ pc[t] = "idle"
  /\ page[t].reviewers
  /\ ~page[t].isLoadingReviewers
  /\ r \in Reviewers
  /\ pc' = [pc EXCEPT ![t] = "assign_put"]
  /\ arg' = [arg EXCEPT ![t] = [NoArg EXCEPT !.n = r]]
  /\ page' = [page EXCEPT ![t].notice = "none"]
  /\ UNCHANGED <<journal, reviews, clock, fetches, bg>>
  /\ UNCHANGED authVars

\* journalAPI.assignReviewer, were its failure not to end the handler
AssignReviewerPut_GoesOn(t) ==
  /\ pc[t] = "assign_put"
  /\ pc' = [pc EXCEPT ![t] = "assign_status"]
  /\ \/ journal' = ServerAssign(journal, arg[t].n)
     \/ UNCHANGED journal
  /\ UNCHANGED <<page, arg, reviews, clock, fetches, bg>>
  /\ UNCHANGED authVars

\* handleAssignReviewer: journalAPI.assignReviewer
AssignReviewerPut(t) ==
  /\ pc[t] = "assign_put"
  /\ \/ /\ journal' = ServerAssign(journal, arg[t].n)
        /\ pc' = [pc EXCEPT ![t] = "assign_status"]
        /\ UNCHANGED <<page, arg>>
     \/ /\ page' = [page EXCEPT ![t].error = TRUE]
        /\ pc' = [pc EXCEPT ![t] = "idle"]
        /\ arg' = [arg EXCEPT ![t] = NoArg]
        /\ UNCHANGED journal
  /\ UNCHANGED <<reviews, clock, fetches, bg>>
  /\ UNCHANGED authVars

\* handleAssignReviewer: the refresh after updateJournalStatus
AssignReviewerRefresh(t) ==
  /\ pc[t] = "assign_final"
  /\ pc' = [pc EXCEPT ![t] = "idle"]
  /\ arg' = [arg EXCEPT ![t] = NoArg]
  /\ \/ page' = [page EXCEPT ![t].journal = journal]
     \/ page' = [page EXCEPT ![t].error = TRUE]
  /\ UNCHANGED <<journal, reviews, clock, fetches, bg>>
  /\ UNCHANGED authVars

\* --------------------------------------- JournalDetailPage: submit review
\* the review form is rendered
CanReview(t) ==
  /\ ShowsJournal(t)
  /\ page[t].isAuthenticated
  /\ RoleOfTab(t) = REVIEWER
  /\ page[t].journal.reviewer_id = UserOf(t)
  /\ page[t].journal.status \in {ASSIGNED, BEING_REVIEWED}

\* the comments textarea is "required": the browser does not submit the
\* form while it is empty
RequiredFilled(c) == c # <<>>

\* handleReviewSubmit, up to the first request
HandleReviewSubmit(t, v, c) ==
  /\ CanReview(t)
  /\ pc[t] = "idle"
  /\ RequiredFilled(c)
  /\ pc' = [pc EXCEPT ![t] = "review_put"]
  /\ arg' = [arg EXCEPT ![t] = [NoArg EXCEPT !.v = v, !.s = c]]
  /\ page' = [page EXCEPT ![t].notice = "none"]
  /\ UNCHANGED <<journal, reviews, clock, fetches, bg>>
  /\ UNCHANGED authVars

\* handleReviewSubmit: journalAPI.reviewJournal
ReviewJournalPut(t) ==
  /\ pc[t] = "review_put"
  /\ \/ /\ Len(reviews) < MaxReviews
        /\ reviews' = ServerReview(reviews, page[t].who, arg[t].v, arg[t].s)
        /\ pc' = [pc EXCEPT ![t] = "review_status"]
        /\ UNCHANGED <<page, arg>>
     \/ /\ page' = [page EXCEPT ![t].notice = "review_error"]
        /\ pc' = [pc EXCEPT ![t] = "idle"]
        /\ arg' = [arg EXCEPT ![t] = NoArg]
        /\ UNCHANGED reviews
  /\ UNCHANGED <<journal, clock, fetches, bg>>
  /\ UNCHANGED authVars

\* handleReviewSubmit: the refresh after updateJournalStatus
ReviewSubmitRefresh(t) ==
  /\ pc[t] = "review_final"
  /\ pc' = [pc EXCEPT ![t] = "idle"]
  /\ arg' = [arg EXCEPT ![t] = NoArg]
  /\ \/ page' = [page EXCEPT ![t].journal = journal]
     \* the journal arrives, the separate request for its reviews fails
     \/ page' = [page EXCEPT ![t].journal = journal,
                             ![t].notice = "review_error"]
     \/ page' = [page EXCEPT ![t].notice = "review_error"]
  /\ UNCHANGED <<journal, reviews, clock, fetches, bg>>
  /\ UNCHANGED authVars

\* ---------------------------------------------- JournalDetailPage: publish
\* the publish control, were it rendered whatever the status
CanPublish_AnyStatus(t) ==
  /\ ShowsJournal(t)
  /\ RoleOfTab(t) = REVIEWER

\* the publish control of the "Publication Details" box is rendered
CanPublish(t) ==
  /\ ShowsJournal(t)
  /\ page[t].journal.status = APPROVED
  /\ RoleOfTab(t) = REVIEWER

\* the validation, were it done without trim()
ValidPublicationNumber_NoTrim(pn) == Truthy(pn)

\* the validation, were it left out
ValidPublicationNumber_Any(pn) == TRUE

\* handlePublishJournal: the validation of the publication number
ValidPublicationNumber(pn) == Truthy(Trim(pn))

\* handlePublishJournal, up to the request
HandlePublishJournal(t, pn) ==
  /\ CanPublish(t)
  /\ pc[t] = "idle"
  /\ IF ValidPublicationNumber(pn)
     THEN /\ pc' = [pc EXCEPT ![t] = "publish_put"]
          /\ arg' = [arg EXCEPT ![t] = [NoArg EXCEPT !.s = pn]]
          /\ page' = [page EXCEPT ![t].notice = "none"]
     ELSE /\ page' = [page EXCEPT ![t].notice = "invalid"]
          /\ UNCHANGED <<pc, arg>>
  /\ UNCHANGED <<journal, reviews, clock, fetches, bg>>
  /\ UNCHANGED authVars

\* handlePublishJournal: journalAPI.publishJournal
PublishJournalPut(t) ==
  /\ pc[t] = "publish_put"
  /\ \/ /\ clock < MaxClock
        /\ clock' = clock + 1
        /\ journal' = ServerPublish(journal, arg[t].s, clock + 1)
        /\ pc' = [pc EXCEPT ![t] = "publish_refresh"]
        /\ UNCHANGED <<page, arg>>
     \/ /\ page' = [page EXCEPT ![t].error = TRUE]
        /\ pc' = [pc EXCEPT ![t] = "idle"]
        /\ arg' = [arg EXCEPT ![t] = NoArg]
        /\ UNCHANGED <<journal, clock>>
  /\ UNCHANGED <<reviews, fetches, bg>>
  /\ UNCHANGED authVars

\* handlePublishJournal: the refresh
PublishJournalRefresh(t) ==
  /\ pc[t] = "publish_refresh"
  /\ pc' = [pc EXCEPT ![t] = "idle"]
  /\ arg' = [arg EXCEPT ![t] = NoArg]
  /\ \/ page' = [page EXCEPT ![t].journal = journal, ![t].notice = "success"]
     \/ page' = [page EXCEPT ![t].error = TRUE]
  /\ UNCHANGED <<journal, reviews, clock, fetches, bg>>
  /\ UNCHANGED authVars

\* --------------------------------------------- JournalDetailPage: download
\* the condition, were the reviewer of the journal not looked at
DownloadStartsReview_AnyReviewer(t) ==
  /\ page[t].isAuthenticated
  /\ RoleOfTab(t) = REVIEWER
  /\ page[t].journal.status = ASSIGNED

\* handleDownload: the condition under which the status is updated
DownloadStartsReview(t) ==
  /\ page[t].isAuthenticated
  /\ RoleOfTab(t) = REVIEWER
  /\ page[t].journal.reviewer_id = UserOf(t)
  /\ page[t].journal.status = ASSIGNED

\* handleDownload, up to the first request
HandleDownload(t) ==
  /\ ShowsJournal(t)
  /\ pc[t] = "idle"
  /\ pc' = [pc EXCEPT ![t] =
       IF DownloadStartsReview(t) THEN "download_put" ELSE "download_file"]
  /\ page' = [page EXCEPT ![t].notice = "none"]
  /\ UNCHANGED <<journal, reviews, clock, fetches, bg, arg>>
  /\ UNCHANGED authVars

\* handleDownload: journalAPI.updateJournalStatus(id, 'being_reviewed') and
\* the functional setJournal; a failure is only logged
DownloadStatusPut(t) ==
  /\ pc[t] = "download_put"
  /\ \/ /\ journal' = ServerSetStatus(journal, BEING_REVIEWED)
        /\ page' = [page EXCEPT ![t].journal =
             IF @ # NullJournal THEN [@ EXCEPT !.status = BEING_REVIEWED]
             ELSE @]
        /\ pc' = [pc EXCEPT ![t] = "download_file"]
     \/ /\ pc' = [pc EXCEPT ![t] = "idle"]
        /\ UNCHANGED <<journal, page>>
  /\ UNCHANGED <<reviews, clock, fetches, bg, arg>>
  /\ UNCHANGED authVars

\* handleDownload: journalAPI.downloadJournal, which changes no state
DownloadFile(t) ==
  /\ pc[t] = "download_file"
  /\ pc' = [pc EXCEPT ![t] = "idle"]
  /\ UNCHANGED <<journal, reviews, clock, page, fetches, bg, arg>>
  /\ UNCHANGED authVars

\* ------------------------------------------- PublishedJournalDetailPage
\* A tab opens /journals/published/:id; its fetch effect runs once.
OpenPublishedDetail(t, who, loaded) ==
  /\ page[t].kind = CLOSED
  /\ loaded => who # NoUser
  /\ page' = [page EXCEPT ![t] =
       [ClosedPage EXCEPT !.kind = PUBLISHED_DETAIL, !.who = who,
                          !.isAuthenticated = loaded, !.isLoading = TRUE]]
  /\ fetches' = [fetches EXCEPT ![t] =
       {Run("fetch", loaded, NullJournal)}]
  /\ UNCHANGED <<journal, reviews, clock, bg, pc, arg>>
  /\ UNCHANGED authVars

\* fetchJournal of the published detail page
FetchPublishedJournal(t, run) ==
  /\ page[t].kind = PUBLISHED_DETAIL
  /\ run \in fetches[t]
  /\ run.fn = "fetch"
  /\ fetches' = [fetches EXCEPT ![t] = @ \ {run}]
  /\ \/ /\ CanGetJournalById(page[t].who)
        /\ page' = [page EXCEPT ![t].journal = journal,
                                ![t].isLoading = FALSE]
     \/ page' = [page EXCEPT ![t].error = TRUE, ![t].isLoading = FALSE]
  /\ UNCHANGED <<journal, reviews, clock, bg, pc, arg>>
  /\ UNCHANGED authVars

\* the page renders the journal
ShowsPublished(t) ==
  /\ page[t].kind = PUBLISHED_DETAIL
  /\ ~page[t].isLoading
  /\ ~page[t].error
  /\ page[t].journal # NullJournal

\* canDeleteJournal: the roles that are offered Unpublish / Republish
CanDeleteJournal(t) ==
  /\ page[t].isAuthenticated
  /\ UserOf(t) # NoUser
  /\ RoleOfTab(t) \in {SUPER_ADMIN, ADMIN, REVIEWER}

\* the number of a republish, were the stored number not passed on
RepublishNumber_Empty(t) == <<>>

\* handlePublishToggle: the publication number it passes to publishJournal,
\* the one of the journal the page holds
RepublishNumber(t) == page[t].journal.publication_number

\* handlePublishToggle, up to the request
HandlePublishToggle(t) ==
  /\ ShowsPublished(t)
  /\ CanDeleteJournal(t)
  /\ pc[t] = "idle"
  /\ IF page[t].journal.status = PUBLISHED
     THEN /\ pc' = [pc EXCEPT ![t] = "toggle_unpublish"]
          /\ page' = [page EXCEPT ![t].notice = "none"]
          /\ UNCHANGED arg
     ELSE IF Truthy(page[t].journal.publication_number)
     THEN /\ pc' = [pc EXCEPT ![t] = "toggle_publish"]
          /\ arg' = [arg EXCEPT ![t] = [NoArg EXCEPT !.s = RepublishNumber(t)]]
          /\ page' = [page EXCEPT ![t].notice = "none"]
     ELSE /\ page' = [page EXCEPT ![t].notice = "invalid"]
          /\ UNCHANGED <<pc, arg>>
  /\ UNCHANGED <<journal, reviews, clock, fetches, bg>>
  /\ UNCHANGED authVars

\* the status of an unpublish, were it the start of the workflow
ToggleUnpublishStatus_Submitted == SUBMITTED

\* handlePublishToggle: the status it sets to unpublish ("the state before
\* publishing")
ToggleUnpublishStatus == APPROVED

\* handlePublishToggle, unpublish: updateJournalStatus(id, 'approved'), then
\* the redirect to the home page
ToggleUnpublishPut(t) ==
  /\ pc[t] = "toggle_unpublish"
  /\ pc' = [pc EXCEPT ![t] = "idle"]
  /\ \/ /\ journal' = ServerSetStatus(journal, ToggleUnpublishStatus)
        /\ page' = [page EXCEPT ![t] = ClosedPage]
     \/ /\ page' = [page EXCEPT ![t].notice = "failed"]
        /\ UNCHANGED journal
  /\ UNCHANGED <<reviews, clock, fetches, bg, arg>>
  /\ UNCHANGED authVars

\* handlePublishToggle, republish: journalAPI.publishJournal
TogglePublishPut(t) ==
  /\ pc[t] = "toggle_publish"
  /\ \/ /\ clock < MaxClock
        /\ clock' = clock + 1
        /\ journal' = ServerPublish(journal, arg[t].s, clock + 1)
        /\ pc' = [pc EXCEPT ![t] = "toggle_refresh"]
        /\ page' = [page EXCEPT ![t].notice = "success"]
        /\ UNCHANGED arg
     \/ /\ page' = [page EXCEPT ![t].notice = "failed"]
        /\ pc' = [pc EXCEPT ![t] = "idle"]
        /\ arg' = [arg EXCEPT ![t] = NoArg]
        /\ UNCHANGED <<journal, clock>>
  /\ UNCHANGED <<reviews, fetches, bg>>
  /\ UNCHANGED authVars

\* handlePublishToggle, republish: the refresh
TogglePublishRefresh(t) ==
  /\ pc[t] = "toggle_refresh"
  /\ pc' = [pc EXCEPT ![t] = "idle"]
  /\ arg' = [arg EXCEPT ![t] = NoArg]
  /\ \/ page' = [page EXCEPT ![t].journal = journal]
     \/ page' = [page EXCEPT ![t].notice = "failed"]
  /\ UNCHANGED <<journal, reviews, clock, fetches, bg>>
  /\ UNCHANGED authVars

\* ------------------------------------------------- all-journals listing
\* A tab opens /journals/all; fetchJournals runs.  page.journal is the
\* entry of the journal in the list (NullJournal: not listed); card is the
\* JournalCard the build renders the entries with.
OpenAll(t, who, loaded, card) ==
  /\ page[t].kind = CLOSED
  /\ loaded => who # NoUser
  /\ page' = [page EXCEPT ![t] =
       [ClosedPage EXCEPT !.kind = ALL, !.who = who, !.card = card,
                          !.isAuthenticated = loaded, !.isLoading = TRUE]]
  /\ fetches' = [fetches EXCEPT ![t] =
       {Run("fetch", loaded, NullJournal)}]
  /\ UNCHANGED <<journal, reviews, clock, bg, pc, arg>>
  /\ UNCHANGED authVars

\* GET /journals/published: the entry of the journal in the response
PublishedEntry == IF journal.status = PUBLISHED THEN journal ELSE NullJournal

\* fetchJournals of the listing; a failure is only logged
FetchJournals(t, run) ==
  /\ page[t].kind = ALL
  /\ run \in fetches[t]
  /\ run.fn = "fetch"
  /\ fetches' = [fetches EXCEPT ![t] = @ \ {run}]
  /\ \/ page' = [page EXCEPT ![t].journal = PublishedEntry,
                             ![t].isLoading = FALSE]
     \/ page' = [page EXCEPT ![t].isLoading = FALSE]
  /\ UNCHANGED <<journal, reviews, clock, bg, pc, arg>>
  /\ UNCHANGED authVars

\* JournalCard.canUnpublish
CanUnpublish(t) ==
  /\ UserOf(t) # NoUser
  /\ RoleOfTab(t) \in {SUPER_ADMIN, ADMIN, REVIEWER}

\* JournalCard, "Admin-only buttons": the condition of the Unpublish button
\* without the status of the journal
AdminOnlyUnpublish(t) ==
  /\ page[t].isAuthenticated
  /\ RoleOfTab(t) = ADMIN

\* the card of the page shows the Unpublish button for a published entry
CardOffersUnpublish(t) ==
  IF page[t].card = CARD THEN CanUnpublish(t) ELSE AdminOnlyUnpublish(t)

\* the listing renders the card of the journal, which it holds as published
ListsPublished(t) ==
  /\ page[t].kind \in {ALL, HOME}
  /\ ~page[t].isLoading
  /\ page[t].journal # NullJournal
  /\ page[t].journal.status = PUBLISHED

\* handleUnpublishJournal (confirmed by the user), up to the request
HandleUnpublishJournal(t) ==
  /\ page[t].kind = ALL
  /\ ListsPublished(t)
  /\ CardOffersUnpublish(t)
  /\ pc[t] = "idle"
  /\ pc' = [pc EXCEPT ![t] = "unpublish_put"]
  /\ page' = [page EXCEPT ![t].notice = "none"]
  /\ UNCHANGED <<journal, reviews, clock, fetches, bg, arg>>
  /\ UNCHANGED authVars

\* the status handleUnpublishJournal writes into the listed journal
UnpublishedLocalStatus == "unpublished"

\* handleUnpublishJournal: journalAPI.unpublishJournal and the update of
\* the list.  The handler catches a failure (toast.error) and returns
\* normally, and the card with the admin-only button then shows
\* toast.success whatever the handler did.
UnpublishJournalPut(t) ==
  /\ pc[t] = "unpublish_put"
  /\ pc' = [pc EXCEPT ![t] = "idle"]
  /\ \/ /\ journal' = ServerUnpublish(journal)
        /\ page' = [page EXCEPT
             ![t].journal = [@ EXCEPT !.status = UnpublishedLocalStatus],
             ![t].notice = "success"]
     \/ /\ page' = [page EXCEPT ![t].notice =
             IF page[t].card = CARD_ADMIN THEN "failed_then_success"
             ELSE "failed"]
        /\ UNCHANGED journal
  /\ UNCHANGED <<reviews, clock, fetches, bg, arg>>
  /\ UNCHANGED authVars

\* --------------------------------------------------------------- home page
\* A tab opens the home page; fetchJournals runs.  The cards get no
\* onUnpublish.
OpenHome(t, who, loaded, card) ==
  /\ page[t].kind = CLOSED
  /\ loaded => who # NoUser
  /\ page' = [page EXCEPT ![t] =
       [ClosedPage EXCEPT !.kind = HOME, !.who = who, !.card = card,
                          !.isAuthenticated = loaded, !.isLoading = TRUE]]
  /\ fetches' = [fetches EXCEPT ![t] =
       {Run("fetch", loaded, NullJournal)}]
  /\ UNCHANGED <<journal, reviews, clock, bg, pc, arg>>
  /\ UNCHANGED authVars

\* Home.fetchJournals: the published journals of the response; a failure is
\* only logged
FetchHomeJournals(t, run) ==
  /\ page[t].kind = HOME
  /\ run \in fetches[t]
  /\ run.fn = "fetch"
  /\ fetches' = [fetches EXCEPT ![t] = @ \ {run}]
  /\ \/ page' = [page EXCEPT ![t].journal = PublishedEntry,
                             ![t].isLoading = FALSE]
     \/ page' = [page EXCEPT ![t].isLoading = FALSE]
  /\ UNCHANGED <<journal, reviews, clock, bg, pc, arg>>
  /\ UNCHANGED authVars

\* JournalCard, admin-only Unpublish button without onUnpublish: the click
HandleCardUnpublish(t) ==
  /\ page[t].kind = HOME
  /\ page[t].card = CARD_ADMIN
  /\ ListsPublished(t)
  /\ AdminOnlyUnpublish(t)
  /\ pc[t] = "idle"
  /\ pc' = [pc EXCEPT ![t] = "card_unpublish"]
  /\ page' = [page EXCEPT ![t].notice = "none"]
  /\ UNCHANGED <<journal, reviews, clock, fetches, bg, arg>>
  /\ UNCHANGED authVars

\* JournalCard, admin-only Unpublish button without onUnpublish:
\* journalAPI.updateJournalStatus(id, 'approved'); the badge is changed in
\* the DOM, the journals of the page are not
CardUnpublishPut(t) ==
  /\ pc[t] = "card_unpublish"
  /\ pc' = [pc EXCEPT ![t] = "idle"]
  /\ \/ /\ journal' = ServerSetStatus(journal, APPROVED)
        /\ page' = [page EXCEPT ![t].notice = "success"]
     \/ /\ page' = [page EXCEPT ![t].notice = "failed"]
        /\ UNCHANGED journal
  /\ UNCHANGED <<reviews, clock, fetches, bg, arg>>
  /\ UNCHANGED authVars

\* ------------------------------------------------------- SubmitJournalPage
\* the submit page, were its effect to look only at isAuthenticated
SubmitAllowed_AnyRole(who, loaded) == loaded

\* SubmitJournalPage: its effect leaves the render alone (no router.push)
\* only for an authenticated publisher; isLoading of the auth context is
\* false from the first render
SubmitAllowed(who, loaded) == loaded /\ RoleOf(who) = PUBLISHER

\* A tab opens /journals/submit and the effect of the page runs: every
\* render but the one of an authenticated publisher is sent to /login or
\* to /journals.
OpenSubmit(t, who, loaded) ==
  /\ page[t].kind = CLOSED
  /\ loaded => who # NoUser
  /\ page' = [page EXCEPT ![t] =
       [ClosedPage EXCEPT
          !.kind = IF SubmitAllowed(who, loaded) THEN SUBMIT ELSE LEFT,
          !.who = who, !.isAuthenticated = loaded]]
  /\ UNCHANGED <<journal, reviews, clock, fetches, bg, pc, arg>>
  /\ UNCHANGED authVars

\* JournalSubmissionForm.onSubmit, up to the request; file tells whether a
\* journal file has been chosen.  The model follows one journal: the form
\* is submitted while that journal does not exist.
SubmitJournal(t, file) ==
  /\ page[t].kind = SUBMIT
  /\ pc[t] = "idle"
  /\ journal = NullJournal
  /\ IF file
     THEN /\ pc' = [pc EXCEPT ![t] = "submit_post"]
          /\ page' = [page EXCEPT ![t].notice = "none"]
     ELSE /\ page' = [page EXCEPT ![t].notice = "invalid"]
          /\ UNCHANGED pc
  /\ UNCHANGED <<journal, reviews, clock, fetches, bg, arg>>
  /\ UNCHANGED authVars

\* JournalSubmissionForm.onSubmit: journalAPI.createJournal, then
\* router.push to the detail page of the new journal
CreateJournalPost(t) ==
  /\ pc[t] = "submit_post"
  /\ pc' = [pc EXCEPT ![t] = "idle"]
  /\ \/ /\ journal' = ServerCreate
        /\ page' = [page EXCEPT ![t] =
             [ClosedPage EXCEPT !.kind = DETAIL, !.who = page[t].who,
                                !.isAuthenticated = TRUE, !.isLoading = TRUE]]
        /\ fetches' = [fetches EXCEPT ![t] =
             {Run("fetch", TRUE, NullJournal), Run("check", TRUE, NullJournal)}]
     \/ /\ page' = [page EXCEPT ![t].notice = "failed"]
        /\ UNCHANGED <<journal, fetches>>
  /\ UNCHANGED <<reviews, clock, bg, arg>>
  /\ UNCHANGED authVars

\* ------------------------------------------------------------ navigation
\* AuthProvider.loadUser completes on a page whose effects do not depend on
\* the auth state
AuthLoadedOther(t) ==
  /\ page[t].kind \in {PUBLISHED_DETAIL, ALL, HOME}
  /\ page[t].who # NoUser
  /\ ~page[t].isAuthenticated
  /\ page' = [page EXCEPT ![t].isAuthenticated = TRUE]
  /\ UNCHANGED <<journal, reviews, clock, fetches, bg, pc, arg>>
  /\ UNCHANGED authVars

\* the user leaves the page (or the router has left it); nothing of it is
\* in flight
Close(t) ==
  /\ page[t].kind # CLOSED
  /\ Quiet(t)
  /\ page' = [page EXCEPT ![t] = ClosedPage]
  /\ UNCHANGED <<journal, reviews, clock, fetches, bg, pc, arg>>
  /\ UNCHANGED authVars

\* ------------------------------------------------------------ AuthProvider
\* Every function of the provider is a closure over the `state` of the
\* render in which it was called: both its setState calls spread that
\* value.  An operation in flight is [op, cap, u]: its name, the state it
\* captured, and the user whose credentials or token it carries.  Any
\* request may be answered with success or with an error.
MaxOps == 2

\* the users who sign in
AuthUsers == {2, 5}

Op(name, cap, u) == [op |-> name, cap |-> cap, u |-> u]

\* the state that login, register, verifyEmail and loadUser set on success
SignedIn(u) ==
  [user |-> u, token |-> u, isAuthenticated |-> TRUE,
   isLoading |-> FALSE, isResendLoading |-> FALSE, error |-> FALSE]

\* setState({...state, isLoading: false, isResendLoading: false, error})
Settled(cap, err) ==
  [cap EXCEPT !.isLoading = FALSE, !.isResendLoading = FALSE, !.error = err]

\* an operation starts: setState({...state, isLoading: true}), then the
\* request
StartLoading(name, u) ==
  /\ Cardinality(ops) < MaxOps
  /\ state' = [state EXCEPT !.isLoading = TRUE]
  /\ ops' = ops \cup {Op(name, state, u)}
  /\ UNCHANGED localToken
  /\ UNCHANGED pageVars

\* the request of an operation that signs in is answered
SignInDone(o) ==
  /\ o \in ops
  /\ ops' = ops \ {o}
  /\ \/ /\ localToken' = o.u
        /\ state' = SignedIn(o.u)
     \/ /\ state' = Settled(o.cap, TRUE)
        /\ UNCHANGED localToken
  /\ UNCHANGED pageVars

\* the request of an operation that does not sign in is answered
RequestDone(o) ==
  /\ o \in ops
  /\ ops' = ops \ {o}
  /\ \/ state' = Settled(o.cap, FALSE)
     \/ state' = Settled(o.cap, TRUE)
  /\ UNCHANGED localToken
  /\ UNCHANGED pageVars

\* loadUser, the effect of the mount, from the response of getProfile; tok
\* is the token it read from localStorage
LoadUserDone(o) ==
  /\ o \in ops
  /\ o.op = "loadUser"
  /\ ops' = ops \ {o}
  /\ \/ /\ state' = SignedIn(o.u)
        /\ UNCHANGED localToken
     \/ /\ localToken' = 0
        /\ state' = initialState
  /\ UNCHANGED pageVars

login(u) == StartLoading("login", u)

loginDone(o) == o.op = "login" /\ SignInDone(o)

register(u) == StartLoading("register", u)

\* register: the response asks for the verification of the email, or signs
\* in, or is an error
registerDone(o) ==
  /\ o.op = "register"
  /\ \/ SignInDone(o)
     \/ /\ o \in ops
        /\ ops' = ops \ {o}
        /\ state' = Settled(o.cap, FALSE)
        /\ UNCHANGED localToken
        /\ UNCHANGED pageVars

verifyEmail(u) == StartLoading("verifyEmail", u)

verifyEmailDone(o) == o.op = "verifyEmail" /\ SignInDone(o)

\* resendOTP: setState({...state, isResendLoading: true}), then the request
resendOTP ==
  /\ Cardinality(ops) < MaxOps
  /\ state' = [state EXCEPT !.isResendLoading = TRUE]
  /\ ops' = ops \cup {Op("resendOTP", state, NoUser)}
  /\ UNCHANGED localToken
  /\ UNCHANGED pageVars

\* resendOTP: setState({...state, isResendLoading: false, error})
resendOTPDone(o) ==
  /\ o \in ops
  /\ o.op = "resendOTP"
  /\ ops' = ops \ {o}
  /\ \/ state' = [o.cap EXCEPT !.isResendLoading = FALSE, !.error = FALSE]
     \/ state' = [o.cap EXCEPT !.isResendLoading = FALSE, !.error = TRUE]
  /\ UNCHANGED localToken
  /\ UNCHANGED pageVars

logout ==
  /\ localToken' = 0
  /\ state' = initialState
  /\ UNCHANGED ops
  /\ UNCHANGED pageVars

changePassword == StartLoading("changePassword", NoUser)

changePasswordDone(o) == o.op = "changePassword" /\ RequestDone(o)

resetPassword == StartLoading("resetPassword", NoUser)

resetPasswordDone(o) == o.op = "resetPassword" /\ RequestDone(o)

forgotPassword == StartLoading("forgotPassword", NoUser)

forgotPasswordDone(o) == o.op = "forgotPassword" /\ RequestDone(o)

verifyResetToken == StartLoading("verifyResetToken", NoUser)

verifyResetTokenDone(o) == o.op = "verifyResetToken" /\ RequestDone(o)

resetPasswordWithToken == StartLoading("resetPasswordWithToken", NoUser)

resetPasswordWithTokenDone(o) ==
  o.op = "resetPasswordWithToken" /\ RequestDone(o)

clearError ==
  /\ state.error
  /\ state' = [state EXCEPT !.error = FALSE]
  /\ UNCHANGED <<localToken, ops>>
  /\ UNCHANGED pageVars

\* ------------------------------------------------------- specifications
Verdicts == {"approved", "rejected"}

\* the set of users who open pages, and the auth states they open them in
Anyone == Users \cup {NoUser}

\* JournalDetailPage: loading
DetailLoad(T, U, L) ==
  \/ \E t \in T, who \in U, loaded \in L : OpenDetail(t, who, loaded)
  \/ \E t \in T : \E run \in fetches[t] : FetchJournal(t, run)
  \/ \E t \in T : \E run \in fetches[t] : CheckJournalAndAuth(t, run)
  \/ \E t \in T : FetchReviewers(t)

\* JournalDetailPage: the auth context loads after the page
DetailAuth(T) ==
  \/ \E t \in T : AuthLoaded(t)
  \/ \E t \in T : AutoReceivedPut(t)
  \/ \E t \in T : AutoReceivedRefresh(t)

\* JournalDetailPage: assign reviewer, submit review, download
DetailReview(T, X) ==
  \/ \E t \in T : UpdateJournalStatusPut(t)
  \/ \E t \in T : UpdateJournalStatusRefresh(t)
  \/ \E t \in T, r \in Users : HandleAssignReviewer(t, r)
  \/ \E t \in T : AssignReviewerPut(t)
  \/ \E t \in T : AssignReviewerRefresh(t)
  \/ \E t \in T, v \in Verdicts, c \in X : HandleReviewSubmit(t, v, c)
  \/ \E t \in T : ReviewJournalPut(t)
  \/ \E t \in T : ReviewSubmitRefresh(t)
  \/ \E t \in T : HandleDownload(t)
  \/ \E t \in T : DownloadStatusPut(t)
  \/ \E t \in T : DownloadFile(t)
  \/ \E t \in T : Close(t)

\* JournalDetailPage: publish
DetailPublish(T, X) ==
  \/ \E t \in T, pn \in X : HandlePublishJournal(t, pn)
  \/ \E t \in T : PublishJournalPut(t)
  \/ \E t \in T : PublishJournalRefresh(t)

\* PublishedJournalDetailPage, the all-journals listing and the home page
PublishedPages(T, U, L) ==
  \/ \E t \in T, who \in U, loaded \in L : OpenPublishedDetail(t, who, loaded)
  \/ \E t \in T : \E run \in fetches[t] : FetchPublishedJournal(t, run)
  \/ \E t \in T : HandlePublishToggle(t)
  \/ \E t \in T : ToggleUnpublishPut(t)
  \/ \E t \in T : TogglePublishPut(t)
  \/ \E t \in T : TogglePublishRefresh(t)
  \/ \E t \in T, who \in U, loaded \in L, card \in Cards :
       OpenAll(t, who, loaded, card)
  \/ \E t \in T : \E run \in fetches[t] : FetchJournals(t, run)
  \/ \E t \in T : HandleUnpublishJournal(t)
  \/ \E t \in T : UnpublishJournalPut(t)
  \/ \E t \in T, who \in U, loaded \in L, card \in Cards :
       OpenHome(t, who, loaded, card)
  \/ \E t \in T : \E run \in fetches[t] : FetchHomeJournals(t, run)
  \/ \E t \in T : HandleCardUnpublish(t)
  \/ \E t \in T : CardUnpublishPut(t)
  \/ \E t \in T : AuthLoadedOther(t)

\* SubmitJournalPage
SubmitPages(T, U, L) ==
  \/ \E t \in T, who \in U, loaded \in L : OpenSubmit(t, who, loaded)
  \/ \E t \in T, file \in BOOLEAN : SubmitJournal(t, file)
  \/ \E t \in T : CreateJournalPost(t)

\* One tab: every user, every page, every text.
Next ==
  \/ DetailLoad({"t1"}, Anyone, BOOLEAN)
  \/ DetailAuth({"t1"})
  \/ DetailReview({"t1"}, Texts)
  \/ DetailPublish({"t1"}, Texts)
  \/ PublishedPages({"t1"}, Anyone, BOOLEAN)

Spec == Init /\ [][Next]_vars

\* Two tabs on the detail page, opened from inside the app by an admin or a
\* reviewer: a page can hold a copy of the journal that another page has
\* made stale.
NextTabs ==
  \/ DetailLoad(Tabs, {2, 3}, {TRUE})
  \/ DetailReview(Tabs, {<<"a">>})

SpecTabs == Init /\ [][NextTabs]_vars

\* The service holds no journal yet.
InitSubmit ==
  /\ journal = NullJournal
  /\ reviews = <<>>
  /\ clock = 0
  /\ page = [t \in Tabs |-> ClosedPage]
  /\ fetches = [t \in Tabs |-> {}]
  /\ bg = [t \in Tabs |-> "idle"]
  /\ pc = [t \in Tabs |-> "idle"]
  /\ arg = [t \in Tabs |-> NoArg]
  /\ state = initialState
  /\ localToken = 0
  /\ ops = {}

\* One tab, from the submission of the journal to its review.
NextSubmit ==
  \/ SubmitPages({"t1"}, Anyone, BOOLEAN)
  \/ DetailLoad({"t1"}, Anyone, BOOLEAN)
  \/ DetailAuth({"t1"})
  \/ DetailReview({"t1"}, {<<"a">>})

SpecSubmit == InitSubmit /\ [][NextSubmit]_vars

\* AuthProvider is mounted: state = initialState, and loadUser awaits
\* getProfile when localStorage holds a token.
InitAuth ==
  /\ journal = MkJournal(SUBMITTED, 0, <<>>, 0)
  /\ reviews = <<>>
  /\ clock = 0
  /\ page = [t \in Tabs |-> ClosedPage]
  /\ fetches = [t \in Tabs |-> {}]
  /\ bg = [t \in Tabs |-> "idle"]
  /\ pc = [t \in Tabs |-> "idle"]
  /\ arg = [t \in Tabs |-> NoArg]
  /\ state = initialState
  /\ localToken \in AuthUsers \cup {0}
  /\ ops = IF localToken = 0 THEN {}
           ELSE {Op("loadUser", initialState, localToken)}

\* The operations of AuthProvider, overlapping.
NextAuth ==
  \/ \E o \in ops : LoadUserDone(o)
  \/ \E u \in AuthUsers : login(u)
  \/ \E o \in ops : loginDone(o)
  \/ \E u \in AuthUsers : register(u)
  \/ \E o \in ops : registerDone(o)
  \/ \E u \in AuthUsers : verifyEmail(u)
  \/ \E o \in ops : verifyEmailDone(o)
  \/ resendOTP
  \/ \E o \in ops : resendOTPDone(o)
  \/ logout
  \/ changePassword
  \/ \E o \in ops : changePasswordDone(o)
  \/ resetPassword
  \/ \E o \in ops : resetPasswordDone(o)
  \/ forgotPassword
  \/ \E o \in ops : forgotPasswordDone(o)
  \/ verifyResetToken
  \/ \E o \in ops : verifyResetTokenDone(o)
  \/ resetPasswordWithToken
  \/ \E o \in ops : resetPasswordWithTokenDone(o)
  \/ clearError

SpecAuth == InitAuth /\ [][NextAuth]_vars

\* ------------------------------------------------------------- properties
AllQuiet == \A t \in Tabs : Quiet(t)

\* the handler of tab t takes a step
Acts(t) == pc'[t] # pc[t] \/ bg'[t] # bg[t]

\* the transition table of the workflow, as pairs (from, to)
TransitionTable ==
  {<<SUBMITTED, RECEIVED>>, <<SUBMITTED, ASSIGNED>>, <<RECEIVED, ASSIGNED>>,
   <<ASSIGNED, BEING_REVIEWED>>,
   <<ASSIGNED, APPROVED>>, <<BEING_REVIEWED, APPROVED>>,
   <<ASSIGNED, REJECTED>>, <<BEING_REVIEWED, REJECTED>>,
   <<APPROVED, PUBLISHED>>, <<PUBLISHED, APPROVED>>}

\* C1: every change of the journal's status is a row of the transition
\* table; a request from a status that is not a legal predecessor of its
\* target leaves the journal as it is.
C1_OnlyTableTransitions ==
  [][journal'.status # journal.status =>
       <<journal.status, journal'.status>> \in TransitionTable]_vars

\* C2: no transition is partially applied: when assign reviewer or submit
\* review has made its first change (reviewer_id, review row) and leaves its
\* status update, the status is the one of the transition.
C2_NoPartialTransition ==
  [][\A t \in Tabs :
       (pc[t] \in {"assign_status", "review_status"} /\ pc'[t] # pc[t])
         => journal'.status = StatusArg(t)]_vars

\* C3: the status of the journal, as persisted and as held by any page, is
\* one of the seven statuses.
C3_StatusClosedSet ==
  /\ journal.status \in JournalStatus
  /\ \A t \in Tabs :
       page[t].journal # NullJournal => page[t].journal.status \in JournalStatus

\* the position of a status in the lifecycle
Stage(st) ==
  CASE st = SUBMITTED -> 1
    [] st = RECEIVED -> 2
    [] st = ASSIGNED -> 3
    [] st = BEING_REVIEWED -> 4
    [] st = APPROVED -> 5
    [] st = REJECTED -> 5
    [] st = PUBLISHED -> 6

\* C4: the only status change that moves the journal backwards in the
\* lifecycle is published -> approved.
C4_OnlyUnpublishGoesBack ==
  [][Stage(journal'.status) < Stage(journal.status) =>
       (journal.status = PUBLISHED /\ journal'.status = APPROVED)]_vars

\* the statuses that come with a reviewer
AssignedStatuses == {ASSIGNED, BEING_REVIEWED, APPROVED, PUBLISHED, REJECTED}

\* C5: whenever no request is in flight, reviewer_id is set if and only if
\* the status is assigned, being_reviewed, approved, published or rejected.
C5_ReviewerIffAssigned ==
  AllQuiet => (journal.reviewer_id # 0 <=> journal.status \in AssignedStatuses)

\* C6: a review row is stored, and assigned -> being_reviewed is made, only
\* on the request of the user who is the journal's reviewer_id.
C6_OnlyAssignedReviewer ==
  [][\A t \in Tabs :
       \/ pc[t] = "review_put" /\ reviews' # reviews
       \/ pc[t] = "download_put" /\ journal' # journal
       => page[t].who = journal.reviewer_id]_vars

\* C7: the journal becomes published only by a request of the reviewer who
\* is assigned to it.
C7_OnlyAssignedReviewerPublishes ==
  [][\A t \in Tabs :
       (Acts(t) /\ journal'.status = PUBLISHED /\ journal.status # PUBLISHED)
         => (RoleOf(page[t].who) = REVIEWER
             /\ page[t].who = journal.reviewer_id)]_vars

PublishPcs ==
  {"publish_put", "publish_refresh", "toggle_publish", "toggle_refresh"}

\* C8: a publish or republish whose publication number is blank sends no
\* request and changes nothing: no publish request with a blank number is
\* ever in flight, the stored number of a published journal is not blank,
\* and the step that reports the invalid number leaves the journal, the
\* page's copy of it and the handler position as they are.
C8_BlankNumberNeverPublished ==
  /\ [](\A t \in Tabs : pc[t] \in PublishPcs => Truthy(Trim(arg[t].s)))
  /\ [](journal.status = PUBLISHED => Truthy(Trim(journal.publication_number)))
  /\ [][\A t \in Tabs :
          (page'[t].notice = "invalid" /\ page[t].notice # "invalid")
            => /\ journal' = journal
               /\ pc' = pc
               /\ page'[t].journal = page[t].journal]_vars

\* C8 witness: a publish attempt with a blank number has been refused on the
\* detail page of an approved journal
C8_Witness ==
  \E t \in Tabs :
    /\ page[t].kind = DETAIL
    /\ page[t].notice = "invalid"
    /\ journal.status = APPROVED
    /\ pc[t] = "idle"

ReviewPcs == {"review_put", "review_status", "review_refresh", "review_final"}

\* C9: no review with blank comments is submitted: no review request with
\* blank comments is in flight and no stored review has blank comments.
C9_NoBlankReview ==
  /\ \A t \in Tabs : pc[t] \in ReviewPcs => Truthy(Trim(arg[t].s))
  /\ \A i \in DOMAIN reviews : Truthy(Trim(reviews[i].comments))

AssignPcs == {"assign_put", "assign_status", "assign_refresh", "assign_final"}

\* C10: a publisher is never offered assign reviewer and never has an
\* assign request in flight, whatever the status of the journal, and no step
\* of a publisher's page changes the journal's status or reviewer_id.
C10_PublisherNeverAssigns ==
  /\ [](\A t \in Tabs :
          RoleOf(page[t].who) = PUBLISHER
            => (~CanAssign(t) /\ pc[t] \notin AssignPcs))
  /\ [][\A t \in Tabs :
          (RoleOf(page[t].who) = PUBLISHER /\ Acts(t))
            => /\ journal'.status = journal.status
               /\ journal'.reviewer_id = journal.reviewer_id]_vars

\* C10 witness: a publisher looks at the detail page of a journal that
\* waits for a reviewer, and has taken a step on it (a download)
C10_Witness ==
  \E t \in Tabs :
    /\ ShowsJournal(t)
    /\ page[t].isAuthenticated
    /\ RoleOf(page[t].who) = PUBLISHER
    /\ page[t].journal.status \in {SUBMITTED, RECEIVED}
    /\ pc[t] = "download_file"

\* a run of fetchJournal of tab t ends in this step with the journal fetched
\* and no error
FetchCompletes(t, run) ==
  /\ page[t].kind = DETAIL
  /\ run \in fetches[t]
  /\ run.fn = "fetch"
  /\ run \notin fetches'[t]
  /\ ~page[t].error
  /\ ~page'[t].error
  /\ page'[t].journal = journal

\* C11: when the fetch of an authenticated admin or super_admin returns a
\* submitted journal, the status update to received is issued (the request
\* is started); the fetch of a user of any other role starts no request and
\* leaves the journal as it is.
C11_AdminViewIssuesReceived ==
  [][\A t \in Tabs : \A run \in fetches[t] :
       (FetchCompletes(t, run) /\ journal.status = SUBMITTED)
         => IF run.auth /\ IsAdminRole(RoleOf(page[t].who))
            THEN bg'[t] = "put"
            ELSE bg'[t] = bg[t] /\ journal' = journal]_vars

\* C12: assign reviewer with reviewer r, started by an admin or super_admin
\* on a journal that is submitted or received, with both of its requests
\* answered successfully, results in status = assigned and reviewer_id = r:
\* that is the journal when updateJournalStatus returns to the handler.
C12_AssignResult ==
  /\ [](\A t \in Tabs :
          pc[t] = "assign_put" => journal.status \in {SUBMITTED, RECEIVED})
  /\ [][\A t \in Tabs :
          (pc[t] = "assign_refresh" /\ pc'[t] = "assign_final")
            => /\ IsAdminRole(RoleOf(page[t].who))
               /\ journal.status = ASSIGNED
               /\ journal.reviewer_id = arg[t].n]_vars

\* the review request of tab t is answered successfully in this step
ReviewStored(t) == pc[t] = "review_put" /\ pc'[t] = "review_status"

UnpublishRoles == {SUPER_ADMIN, ADMIN, REVIEWER}

\* tab t shows the published journal on a page whose build has an Unpublish
\* control: the published detail page, the listing, the home page with the
\* card that unpublishes by itself
ShowsUnpublishable(t) ==
  \/ ShowsPublished(t) /\ page[t].journal.status = PUBLISHED
  \/ ListsPublished(t) /\ page[t].kind = ALL
  \/ ListsPublished(t) /\ page[t].kind = HOME /\ page[t].card = CARD_ADMIN

\* the Unpublish control is rendered in tab t
UnpublishOffered(t) ==
  \/ ShowsPublished(t) /\ page[t].journal.status = PUBLISHED
       /\ CanDeleteJournal(t)
  \/ ListsPublished(t) /\ page[t].kind = ALL /\ CardOffersUnpublish(t)
  \/ ListsPublished(t) /\ page[t].kind = HOME /\ page[t].card = CARD_ADMIN
       /\ AdminOnlyUnpublish(t)

\* C14: on every page and card that has an Unpublish control, the control is
\* offered for a published journal to the user if and only if the user is
\* logged in with role admin, super_admin or reviewer.
C14_UnpublishRoles ==
  \A t \in Tabs :
    ShowsUnpublishable(t)
      => (UnpublishOffered(t)
            <=> (UserOf(t) # NoUser /\ RoleOfTab(t) \in UnpublishRoles))

UnpublishPcs == {"unpublish_put", "toggle_unpublish", "card_unpublish"}

\* C15: a successful unpublish request is made on a published journal and
\* changes only its status, to approved (publication_number, published_date
\* and reviewer_id stay), and the listing that made the request then holds
\* the journal with status approved.
C15_UnpublishFrame ==
  [][\A t \in Tabs :
       (pc[t] \in UnpublishPcs /\ pc'[t] = "idle" /\ journal' # journal)
         => /\ journal.status = PUBLISHED
            /\ journal' = [journal EXCEPT !.status = APPROVED]
            /\ pc[t] = "unpublish_put"
                 => page'[t].journal = journal']_vars

\* C16: the round trip publish, unpublish, in the use of one tab.  The
\* publish of an approved journal changes nothing but status,
\* publication_number and published_date; while the journal stays published,
\* reviewer_id and the review rows stay; the unpublish of the published
\* detail page sets the status approved and changes nothing else.  So the
\* journal is back in the state it had before publish, but for
\* publication_number and published_date.
C16_RoundTrip ==
  [][/\ (journal.status = APPROVED /\ journal'.status = PUBLISHED)
          => /\ journal'.reviewer_id = journal.reviewer_id
             /\ reviews' = reviews
     /\ (journal.status = PUBLISHED /\ journal'.status = PUBLISHED)
          => /\ journal'.reviewer_id = journal.reviewer_id
             /\ reviews' = reviews
     /\ \A t \in Tabs :
          (pc[t] = "toggle_unpublish" /\ pc'[t] = "idle"
             /\ page'[t].kind = CLOSED)
            => /\ journal.status = PUBLISHED
               /\ journal' = [journal EXCEPT !.status = APPROVED]
               /\ reviews' = reviews]_vars

\* C16 witness: the journal has gone through the workflow, was published and
\* unpublished: it is approved, with its reviewer, its review row and the
\* publication number and date of the publish
C16_Witness ==
  /\ journal.status = APPROVED
  /\ journal.reviewer_id # 0
  /\ Len(reviews) = 1
  /\ reviews[1].status = "approved"
  /\ Truthy(journal.publication_number)
  /\ journal.published_date = 1
  /\ \A t \in Tabs : page[t].kind = CLOSED /\ pc[t] = "idle"

\* the publish request of tab t is answered successfully in this step
PublishAccepted(t) ==
  \/ pc[t] = "publish_put" /\ pc'[t] = "publish_refresh"
  \/ pc[t] = "toggle_publish" /\ pc'[t] = "toggle_refresh"

\* C17: a publish request for a journal that is already published, with the
\* publication number the journal has, leaves the journal as it is; in
\* particular published_date does not change.
C17_PublishIdempotent ==
  [][\A t \in Tabs :
       ( /\ PublishAccepted(t)
         /\ journal.status = PUBLISHED
         /\ arg[t].s = journal.publication_number )
       => journal' = journal]_vars

\* C18: a publish request that is answered successfully for a journal that
\* is approved and has a stored publication number makes the journal
\* published, with published_date the time of this request; the Republish
\* of the published detail page keeps the stored number, the publish of the
\* detail page stores the number typed into its input.
C18_Republish ==
  [][\A t \in Tabs :
       ( /\ PublishAccepted(t)
         /\ journal.status = APPROVED
         /\ Truthy(journal.publication_number) )
       => /\ journal'.status = PUBLISHED
          /\ journal'.published_date = clock'
          /\ journal'.published_date > journal.published_date
          /\ journal'.reviewer_id = journal.reviewer_id
          /\ pc[t] = "toggle_publish"
               => journal'.publication_number = journal.publication_number
          /\ pc[t] = "publish_put"
               => journal'.publication_number = arg[t].s]_vars

\* C18 witness: the journal, published with number "a" at time 1 and then
\* unpublished, has been republished from the published detail page: the
\* page has its fresh copy, published with number "a" at time 2
C18_Witness ==
  \E t \in Tabs :
    /\ page[t].kind = PUBLISHED_DETAIL
    /\ pc[t] = "idle"
    /\ page[t].notice = "success"
    /\ page[t].journal = journal
    /\ journal.status = PUBLISHED
    /\ journal.publication_number = <<"a">>
    /\ journal.published_date = 2

\* a request of a handler of tab t that changes the journal or its reviews
\* fails in this step
RequestFails(t) ==
  \/ pc[t] = "assign_put" /\ pc'[t] = "idle"
  \/ pc[t] = "assign_status" /\ pc'[t] = "assign_final"
  \/ pc[t] = "review_put" /\ pc'[t] = "idle"
  \/ pc[t] = "review_status" /\ pc'[t] = "review_final"
  \/ pc[t] = "publish_put" /\ pc'[t] = "idle"
  \/ pc[t] = "toggle_publish" /\ pc'[t] = "idle"
  \/ pc[t] = "toggle_unpublish" /\ pc'[t] = "idle" /\ page'[t].kind # CLOSED
  \/ pc[t] = "unpublish_put" /\ pc'[t] = "idle"
       /\ page'[t].journal = page[t].journal
  \/ pc[t] = "card_unpublish" /\ pc'[t] = "idle"
       /\ journal.status = PUBLISHED /\ journal' = journal
  \/ pc[t] = "download_put" /\ pc'[t] = "idle"

\* the page of tab t tells its user of a failure, and of nothing else
ReportsFailure(p) == p.error \/ p.notice \in {"failed", "review_error"}

\* C19: when a request of a workflow transition fails, the page reports the
\* failure to its user and the handler that made the request stops; so for
\* the status update that fetchJournal starts.
C19_NoFailureSwallowed ==
  [][\A t \in Tabs :
       /\ RequestFails(t)
            => /\ ReportsFailure(page'[t])
               /\ pc'[t] = "idle"
       /\ (bg[t] = "put" /\ bg'[t] = "idle")
            => ReportsFailure(page'[t])]_vars

\* C20: the journal has a publication number if and only if it has a
\* published date, and the two change only in the step in which a publish
\* request is answered successfully, which leaves the journal published.
C20_NumberAndDateTogether ==
  /\ [](Truthy(journal.publication_number) <=> journal.published_date # 0)
  /\ [][(\/ journal'.publication_number # journal.publication_number
         \/ journal'.published_date # journal.published_date)
          => /\ \E t \in Tabs : PublishAccepted(t)
             /\ journal'.status = PUBLISHED]_vars

\* C20 witness: the publish of the detail page has just been answered: the
\* journal has the number typed by the reviewer and its first published date
C20_Witness ==
  \E t \in Tabs :
    /\ pc[t] = "publish_refresh"
    /\ journal.status = PUBLISHED
    /\ journal.publication_number = arg[t].s
    /\ journal.published_date = 1
    /\ page[t].journal.publication_number = <<>>
    /\ page[t].journal.published_date = 0

C22_ListingOnlyPublished ==
  \A t \in Tabs :
    (page[t].kind \in {ALL, HOME} /\ page[t].journal # NullJournal)
      => page[t].journal.status = PUBLISHED

DownloadPcs == {"download_put", "download_file"}

OffersAgain(t, p) ==
  /\ pc[t] = "idle"
  /\ CASE p = "publish_put" -> CanPublish(t)
       [] p \in {"toggle_publish", "toggle_unpublish"} ->
            ShowsPublished(t) /\ CanDeleteJournal(t)
       [] p = "unpublish_put" ->
            page[t].kind = ALL /\ ListsPublished(t) /\ CardOffersUnpublish(t)
       [] OTHER -> FALSE

\* C24: when a publish, republish or unpublish request fails, the journal
\* and the journal held by the page stay as they were, the page reports the
\* failure, and the page offers the same control again.
C24_FailureIsRetryable ==
  [][\A t \in Tabs :
       \A p \in {"publish_put", "toggle_publish", "toggle_unpublish",
                 "unpublish_put"} :
         (pc[t] = p /\ RequestFails(t))
           => /\ journal' = journal
              /\ page'[t].journal = page[t].journal
              /\ ReportsFailure(page'[t])
              /\ OffersAgain(t, p)']_vars

\* the review that handleReviewSubmit of tab t has asked to store
SubmittedReview(t) ==
  [reviewer_id |-> page[t].who, status |-> arg[t].v, comments |-> arg[t].s]

\* C25: a handler is about to send its status update only after its first
\* request has succeeded: updateJournalStatus(assigned) only when
\* assignReviewer has stored the selected reviewer, and
\* updateJournalStatus(approved or rejected) only when reviewJournal has
\* stored the review, with the status of that review's verdict.
C25_StatusAfterFirstRequest ==
  /\ [](\A t \in Tabs :
          /\ pc[t] = "assign_status"
               => /\ StatusArg(t) = ASSIGNED
                  /\ arg[t].n \in Reviewers
                  /\ journal.reviewer_id = arg[t].n
          /\ pc[t] = "review_status"
               => /\ \E i \in DOMAIN reviews : reviews[i] = SubmittedReview(t)
                  /\ arg[t].v \in {"approved", "rejected"}
                  /\ StatusArg(t) =
                       (IF arg[t].v = "approved" THEN APPROVED ELSE REJECTED))
  /\ [][\A t \in Tabs :
          /\ (pc'[t] = "assign_status" /\ pc[t] # "assign_status")
               => /\ pc[t] = "assign_put"
                  /\ journal' = ServerAssign(journal, arg[t].n)
          /\ (pc'[t] = "review_status" /\ pc[t] # "review_status")
               => /\ pc[t] = "review_put"
                  /\ reviews' = Append(reviews, SubmittedReview(t))]_vars

\* C25 witness: reviewJournal has stored a rejecting review and the handler
\* is about to send updateJournalStatus(rejected)
C25_Witness ==
  \E t \in Tabs :
    /\ pc[t] = "review_status"
    /\ arg[t].v = "rejected"
    /\ StatusArg(t) = REJECTED
    /\ reviews # <<>>
    /\ reviews[Len(reviews)].status = "rejected"
    /\ journal.status \in {ASSIGNED, BEING_REVIEWED}

\* C26: a journal that is approved or published has a reviewer and a review
\* with status approved.
C26_PublishedWasApproved ==
  journal.status \in {APPROVED, PUBLISHED}
    => /\ journal.reviewer_id # 0
       /\ \E i \in DOMAIN reviews : reviews[i].status = "approved"

\* C26 witness: a journal that was published and then unpublished is
\* approved, keeps its publication number, and has its reviewer and the
\* approving review
C26_Witness ==
  /\ journal.status = APPROVED
  /\ Truthy(journal.publication_number)
  /\ journal.reviewer_id \in Reviewers
  /\ reviews # <<>>
  /\ reviews[1].status = "approved"
  /\ reviews[1].reviewer_id = journal.reviewer_id

\* fetchJournal of the authenticated render of tab t ends in this step
AuthFetchEnds(t) ==
  \E run \in fetches[t] :
    /\ run.fn = "fetch"
    /\ run.auth
    /\ fetches'[t] = fetches[t] \ {run}

\* C27: when fetchJournal of the authenticated render ends and the page
\* offers the assign control (an admin or super_admin, the journal submitted
\* or received), getAllReviewers has been requested: the list is loading or
\* loaded.
C27_ReviewersRequested ==
  [][\A t \in Tabs :
       (AuthFetchEnds(t) /\ CanAssign(t)')
         => (page'[t].isLoadingReviewers \/ page'[t].reviewers)]_vars

\* the request of operation o is answered in this step
Completes(o) == o \in ops /\ ops' = ops \ {o}

SignInOps == {"login", "register", "verifyEmail", "loadUser"}

\* C28: isAuthenticated implies that localStorage holds a token, and an
\* unauthenticated state (as logout leaves it) becomes authenticated only
\* by the success of login, register or verifyEmail (or of loadUser at the
\* mount), never by the completion of another operation.
C28_LogoutStays ==
  /\ [](state.isAuthenticated => localToken # 0)
  /\ [][(~state.isAuthenticated /\ state'.isAuthenticated)
          => \E o \in ops :
               /\ Completes(o)
               /\ o.op \in SignInOps
               /\ state' = SignedIn(o.u)]_vars

\* C29: when no operation of AuthProvider is outstanding, isLoading and
\* isResendLoading are false; and the user of an authenticated state changes
\* only by logout, by a later sign-in, or by the failure of loadUser.
C29_LoadingEnds ==
  /\ [](ops = {} => (~state.isLoading /\ ~state.isResendLoading))
  /\ [][(state.isAuthenticated /\ state'.user # state.user)
          => \/ state' = initialState /\ localToken' = 0
             \/ \E o \in ops :
                  /\ Completes(o)
                  /\ o.op \in SignInOps
                  /\ state' = SignedIn(o.u)]_vars

\* a run of effect fn of the render without a user ends in this step
VisitorRunEnds(t, fn) ==
  \E run \in fetches[t] :
    /\ run.fn = fn
    /\ ~run.auth
    /\ fetches'[t] = fetches[t] \ {run}

====
